---------------------------- MODULE Spec2Model ----------------------------
(***************************************************************************)
(* Model of the session / transfer protocol of MephistoVault (src/src/     *)
(* App.tsx): one App instance used as sender, App instances used as        *)
(* receivers, and the PeerJS data connections between them.                *)
(*                                                                         *)
(* Representation choices                                                  *)
(*  - A room code is a sequence of one-character strings, so that split,   *)
(*    replace, toLowerCase and parseInt are computed as the code does.     *)
(*  - File content is symbolic: a buffer is a record naming the file, the  *)
(*    first byte offset, the length and the XOR mask that has been applied *)
(*    to every byte so far.  Two buffers hold the same bytes for every     *)
(*    content exactly when these four fields agree (mask irrelevant when   *)
(*    the length is 0).  The mask is computed by real bitwise XOR.         *)
(*  - React: a handler, the render that follows it and the effects that    *)
(*    render triggers are one atomic step (state updates are batched).     *)
(*    Effects read state from the render they belong to and refs live.     *)
(*  - PeerJS (external library): close() on a connection fires its 'close' *)
(*    handlers synchronously and only when the connection was open;        *)
(*    peer.destroy() closes every connection of the peer; send() on a      *)
(*    connection that is not open raises the connection's 'error' event.   *)
(***************************************************************************)
EXTENDS Integers, Sequences, FiniteSets, TLC

CHUNK_SIZE == 16384
SELF_DESTRUCT_SEC == 300

\* Bounds of the model (not program constants).
MaxQueue == 2        \* messages in flight on one connection before a handshake tick is held back
RoomQueue == 1       \* the same, in the runs with two receivers
SpareLinks == 0      \* connection objects that may exist beyond one per receiver
MaxChunks == 4       \* buffers a receiver accumulates before the model stops delivering more
MaxCut == 3          \* longest chunk, in bytes, the byte-level runs cut a byte sequence into
MaxSeconds == 1      \* seconds that pass in a run (beyond the countdown, where a run covers it)
ExtraEvents == 2     \* user events in a run beyond those one transfer per receiver needs

\* The element of a one-element set.  Only({e(v) : v \in {x}}) is e(x) with x
\* evaluated once, before e: JavaScript evaluates an argument or a `const`
\* once, where a TLA+ definition stands for its text.
Only(S) == CHOOSE r \in S : TRUE

None == "none"
Nothing == <<>>      \* null / undefined
Just(x) == <<x>>
Get(m) == m[1]

Sender == "s"
ReceiverIds == {"r1", "r2"}
Participants == {Sender} \cup ReceiverIds
Links == 1..(Cardinality(ReceiverIds) + SpareLinks)

---------------------------------------------------------------------------
(* Strings as character sequences.                                         *)

Digits == {"0", "1", "2", "3", "4", "5", "6", "7", "8", "9"}
WhiteSpace == {" "}

DigitVal(c) ==
  CASE c = "0" -> 0 [] c = "1" -> 1 [] c = "2" -> 2 [] c = "3" -> 3
    [] c = "4" -> 4 [] c = "5" -> 5 [] c = "6" -> 6 [] c = "7" -> 7
    [] c = "8" -> 8 [] c = "9" -> 9

\* String.prototype.toLowerCase on one character (the letters the model types).
LowerChar(c) ==
  CASE c = "A" -> "a" [] c = "B" -> "b" [] c = "C" -> "c" [] c = "D" -> "d"
    [] c = "E" -> "e" [] c = "F" -> "f" [] c = "X" -> "x" [] c = "Y" -> "y"
    [] c = "Z" -> "z" [] OTHER -> c

toLowerCase(s) == Only({[i \in 1..Len(t) |-> LowerChar(t[i])] : t \in {s}})

\* Index of the first occurrence of character c in s, 0 when there is none.
IndexOf(s, c) ==
  Only({
    IF \E i \in 1..Len(t) : t[i] = c
      THEN CHOOSE i \in 1..Len(t) : t[i] = c /\ \A j \in 1..(i - 1) : t[j] # c
      ELSE 0
    : t \in {s}})

\* String.prototype.trim
RECURSIVE TrimLeft(_)
TrimLeft(s) == IF s # <<>> /\ Head(s) \in WhiteSpace THEN TrimLeft(Tail(s)) ELSE s
RECURSIVE TrimRight(_)
TrimRight(s) ==
  IF s # <<>> /\ s[Len(s)] \in WhiteSpace THEN TrimRight(SubSeq(s, 1, Len(s) - 1)) ELSE s
trim(s) == TrimRight(TrimLeft(s))

\* s.split('#')[0]
SplitHash0(s) ==
  LET i == IndexOf(s, "#") IN IF i = 0 THEN s ELSE SubSeq(s, 1, i - 1)

\* s.split('#')[1]: the text between the first and the second '#';
\* undefined (Nothing) when s holds no '#'.
SplitHash1(s) ==
  LET i == IndexOf(s, "#") IN
    IF i = 0 THEN Nothing
    ELSE LET rest == SubSeq(s, i + 1, Len(s)) IN Just(SplitHash0(rest))

\* s.replace('-', ''): the first '-' only.
ReplaceFirstDash(s) ==
  LET i == IndexOf(s, "-") IN
    IF i = 0 THEN s ELSE SubSeq(s, 1, i - 1) \o SubSeq(s, i + 1, Len(s))

\* s.replace(/-/g, ''): every '-'.
RECURSIVE ReplaceAllDash(_)
ReplaceAllDash(s) ==
  IF s = <<>> THEN <<>>
  ELSE IF Head(s) = "-" THEN ReplaceAllDash(Tail(s))
  ELSE <<Head(s)>> \o ReplaceAllDash(Tail(s))

RECURSIVE TakeDigits(_)
TakeDigits(s) ==
  IF s # <<>> /\ Head(s) \in Digits THEN <<Head(s)>> \o TakeDigits(Tail(s)) ELSE <<>>

RECURSIVE DecimalValue(_)
DecimalValue(d) ==
  Only({
    IF t = <<>> THEN 0 ELSE 10 * DecimalValue(SubSeq(t, 1, Len(t) - 1)) + DigitVal(t[Len(t)])
    : t \in {d}})

\* parseInt(s): leading white space, an optional sign, then the longest run of
\* digits; NaN when there is no digit.
parseInt(s) ==
  Only({
    LET signed == t # <<>> /\ Head(t) \in {"+", "-"}
        u == IF signed THEN Tail(t) ELSE t
    IN  Only({
          IF d = <<>> THEN [nan |-> TRUE, val |-> 0]
          ELSE [nan |-> FALSE,
                val |-> IF signed /\ Head(t) = "-" THEN 0 - DecimalValue(d)
                        ELSE DecimalValue(d)]
          : d \in {TakeDigits(u)}})
    : t \in {TrimLeft(s)}})

\* x || y for a parseInt result x: NaN and 0 are falsy.
OrElse(x, y) == Only({IF v.nan \/ v.val = 0 THEN y ELSE v.val : v \in {x}})

\* JavaScript a % n (n > 0): the result has the sign of a.
JsRem(a, n) == IF a >= 0 THEN a % n ELSE 0 - ((0 - a) % n)

\* A derivation whose fallback for a missing PIN is 1 instead of 1024.
DeriveKeyOne(code) ==
  Only({
    LET pinStr == IF part = Nothing \/ Get(part) = <<>> THEN <<"0">> ELSE Get(part)
    IN  JsRem(OrElse(parseInt(pinStr), 1), 256)
    : part \in {SplitHash1(code)}})

\* pin of a code as the chunk code computes it:
\*   pinStr = code.split('#')[1] || "0";  pin = parseInt(pinStr) || 1024;  pin % 256
DeriveKey(code) ==
  Only({
    LET pinStr == IF part = Nothing \/ Get(part) = <<>> THEN <<"0">> ELSE Get(part)
        pin == OrElse(parseInt(pinStr), 1024)
    IN  Only({JsRem(n, 256) : n \in {pin}})
    : part \in {SplitHash1(code)}})

\* The identity the sender listens on (initSender).
SenderIdentity(shareCode) ==
  <<"mephisto-">> \o toLowerCase(ReplaceAllDash(SplitHash0(shareCode)))

\* A target computed from the code as typed, without toLowerCase.
ReceiverTargetAsTyped(receiveCode) ==
  <<"mephisto-">> \o ReplaceFirstDash(SplitHash0(trim(receiveCode)))

\* The identity a receiver connects to (handleConnectReceiver and the two
\* other entry paths compute it the same way).
ReceiverTarget(receiveCode) ==
  <<"mephisto-">> \o ReplaceFirstDash(SplitHash0(toLowerCase(trim(receiveCode))))

---------------------------------------------------------------------------
(* Bytes.                                                                  *)

RECURSIVE BitXor(_, _)
BitXor(a, b) ==
  IF a = 0 THEN b
  ELSE IF b = 0 THEN a
  ELSE (((a % 2) + (b % 2)) % 2) + 2 * BitXor(a \div 2, b \div 2)

\* byte ^= key stored into a Uint8Array: the low 8 bits of the XOR.
Scramble(mask, key) == Only({BitXor(mask, k) : k \in {key % 256}})

\* Math.round(100 * a / b) for a >= 0, b > 0.
RoundPercent(a, b) == (200 * a + b) \div (2 * b)

Min(a, b) == IF a <= b THEN a ELSE b

---------------------------------------------------------------------------
(* Room codes, files and buffers the model draws its inputs from.          *)

CodeA == <<"a","b","c","-","d","e","f","#","1","0","0","0">>
CodeB == <<"x","y","z","-","2","3","4","#","4","2","4","2">>
CodeAUp == <<"A","B","C","-","D","E","F","#","1","0","0","0">>   \* typed in upper case
CodeAPin == <<"a","b","c","-","d","e","f","#","1","0","0","1">>   \* other PIN, other key
CodeAWrap == <<"a","b","c","-","d","e","f","#","1","2","5","6">>   \* other PIN, same key mod 256
CodeANoPin == <<"a","b","c","-","d","e","f"," "," "," "," ">>      \* no '#', padded to 11 characters
CodeAText == <<"a","b","c","-","d","e","f","#","p","i","n","s">>   \* PIN that is no number
CodeAZero == <<"a","b","c","-","d","e","f","#","0","0","0","0">>   \* PIN that is the number 0
CodeALead == <<"a","b","c","-","d","e","f","#","1","2","x","y">>   \* PIN that starts with a number
CodeAMix == <<"a","B","c","-","D","e","F","#","1","0","0","0">>    \* typed in mixed case
CodeBUp == <<"X","Y","Z","-","2","3","4","#","4","2","4","2">>     \* typed in upper case

\* A File: name, size in bytes, MIME type.  The content is symbolic.
File(n, sz) == [name |-> n, size |-> sz, type |-> "application/octet-stream"]
FileBig == File("big", 2 * CHUNK_SIZE + CHUNK_SIZE \div 2)   \* 40960: three chunks, the last of 8192
FileEdge == File("edge", CHUNK_SIZE + 1)                     \* two chunks, the last of one byte
FileOne == File("one", CHUNK_SIZE)                          \* exactly one full chunk
FileSmall == File("small", 1)
FileEmpty == File("empty", 0)
AllFiles == {FileBig, FileEdge, FileOne, FileSmall, FileEmpty}

\* file.slice(offset, end).arrayBuffer(): bytes [offset, end) of the file,
\* empty when end <= offset.
Slice(file, offset, end) ==
  [file |-> file.name, off |-> offset,
   len |-> IF end > offset THEN end - offset ELSE 0, mask |-> 0]

\* for (i...) scrambled[i] ^= (pin % 256)
XorBuffer(buf, key) == [buf EXCEPT !.mask = Scramble(@, key)]

---------------------------------------------------------------------------
(* State.                                                                  *)

VARIABLES
  app,     \* app[p]: the React state and refs of participant p's App instance
  link,    \* link[l]: one PeerJS DataConnection pair (sender end, receiver end, both queues)
  reads,   \* sendChunk calls of the sender suspended at `await slice.arrayBuffer()`
  now,     \* seconds passed
  acts,    \* user events so far
  env,     \* what the users of this run may type, pick and do (fixed by Init)
  calc     \* a code, a typed code and bytes, with what the code's functions make of them

vars == <<app, link, reads, now, acts, env, calc>>

\* App state after mount (useState / useRef initial values).
InitApp ==
  [mode |-> "idle",             \* useState 'idle'
   shareCode |-> <<>>,
   receiveCode |-> <<>>,
   peerRef |-> Nothing,         \* Just(Peer): its id and what the handlers attached to it closed over
   peerOpen |-> FALSE,          \* the Peer's 'open' event has fired
   peerErr |-> FALSE,           \* history: the Peer's 'error' event has fired
   connRef |-> Nothing,         \* Just(l)
   multiConns |-> <<>>,
   peerCount |-> 0,
   isConnected |-> FALSE,
   errorStatus |-> None,
   fileToShare |-> Nothing,
   fileToShareRef |-> Nothing,
   transferProgress |-> 0 - 1,
   fileMeta |-> Nothing,        \* fileMeta state and fileMetaRef are always written together
   receivedChunks |-> <<>>,
   receivedBytes |-> 0,
   completedFile |-> Nothing,
   chatMessages |-> <<>>,       \* the text and the sender of each message
   selfDestructSec |-> 0,
   sdTimer |-> FALSE,           \* the interval held in selfDestructRef is running
   connTime |-> 0,
   connTimer |-> FALSE,         \* the interval held in connTimerRef is running
   joinTimer |-> Nothing,       \* Just([path, code]): a setTimeout of lines 161 or 841 is pending
   armedAt |-> 0,               \* history: the second in which that interval was started
   cancelled |-> Nothing]       \* history: Just(armedAt) of the last countdown stopped before its end

\* A connection slot nobody uses.
FreeLink ==
  [owner |-> None,        \* the receiver that opened it
   target |-> <<>>,       \* the identity it was opened to
   s |-> "none",          \* sender end: none, pending (accepted, not open), open, closed
   r |-> "none",          \* receiver end: none, connecting, open, closed
   toS |-> <<>>, toR |-> <<>>,
   hs |-> FALSE,          \* the receiver's handshakeInterval is running
   code |-> <<>>,         \* the room code the receiver's handlers closed over
   path |-> None,         \* entry path whose handlers are attached: manual, auto, nearby
   capProgress |-> 0,     \* transferProgress the manual path's close handler closed over
   scode |-> <<>>,        \* the room code the sender's handlers closed over
   reqs |-> <<>>,         \* history: offsets of the request-chunk messages sent on it
   sent |-> <<>>,         \* history: offsets of the chunk messages sent on it
   metas |-> 0]           \* history: metadata messages the receiver's handler has seen

\* A Peer object with the values the handlers registered on it closed over:
\* the room code, the entry path and the transferProgress of the render that
\* created it.
Peer(id, code, path, progress) ==
  [id |-> id, code |-> code, path |-> path, capProgress |-> progress]

World == [app |-> app, link |-> link, reads |-> reads]

DeadConn == Just(0)      \* a reference to a connection object that is closed on both ends

IsLinkRef(c) == c # Nothing /\ c # DeadConn

RECURSIVE SeqFilterOut(_, _)
SeqFilterOut(q, x) ==
  IF q = <<>> THEN <<>>
  ELSE IF Head(q) = x THEN SeqFilterOut(Tail(q), x)
  ELSE <<Head(q)>> \o SeqFilterOut(Tail(q), x)

InSeq(q, x) == \E i \in 1..Len(q) : q[i] = x

---------------------------------------------------------------------------
(* PeerJS connection events as seen by the handlers.                       *)

\* A close handler that reports the loss whatever is left in the set.
SenderConnOnCloseAlways(w, l) ==
  [w EXCEPT !.app[Sender] =
     [@ EXCEPT !.multiConns = SeqFilterOut(@, l),
               !.peerCount = Len(SeqFilterOut(w.app[Sender].multiConns, l)),
               !.isConnected = FALSE,
               !.errorStatus = "Connection lost."]]

\* Sender: conn.on('close') (lines 570-577)
SenderConnOnClose(w, l) ==
  LET a == w.app[Sender]
      mc == SeqFilterOut(a.multiConns, l)
  IN  [w EXCEPT !.app[Sender] =
         [a EXCEPT !.multiConns = mc,
                   !.peerCount = Len(mc),
                   !.isConnected = IF Len(mc) = 0 THEN FALSE ELSE @,
                   !.errorStatus = IF Len(mc) = 0 THEN "Connection lost." ELSE @]]

\* Receiver: conn.on('close') of the three entry paths
ReceiverConnOnClose(w, l) ==
  LET k == w.link[l]
      r == k.owner
      a == w.app[r]
      unexpected == k.path = "manual" /\ k.capProgress < 100 /\ k.capProgress > 0
  IN  [w EXCEPT !.app[r] =
         [a EXCEPT !.errorStatus = IF unexpected THEN "Connection closed unexpectedly." ELSE @,
                   !.isConnected = FALSE]]

\* conn.close() called by the sender on its end of l
CloseSenderEnd(w, l) ==
  LET k == w.link[l] IN
    IF k.s = "open"
      THEN SenderConnOnClose([w EXCEPT !.link[l].s = "closed", !.link[l].toS = <<>>], l)
    ELSE IF k.s = "pending"
      THEN [w EXCEPT !.link[l].s = "closed", !.link[l].toS = <<>>]
    ELSE w

\* conn.close() called by the receiver on its end of l
CloseReceiverEnd(w, l) ==
  LET k == w.link[l] IN
    IF k.r = "open"
      THEN ReceiverConnOnClose([w EXCEPT !.link[l].r = "closed", !.link[l].toR = <<>>], l)
    ELSE IF k.r = "connecting"
      THEN [w EXCEPT !.link[l].r = "closed", !.link[l].toR = <<>>]
    ELSE w

CloseEnd(w, p, l) == IF p = Sender THEN CloseSenderEnd(w, l) ELSE CloseReceiverEnd(w, l)

\* The connections participant p's Peer holds, in slot order.
PeerConns(w, p) ==
  IF p = Sender THEN {l \in Links : w.link[l].s \in {"pending", "open"}}
  ELSE {l \in Links : w.link[l].owner = p /\ w.link[l].r \in {"connecting", "open"}}

RECURSIVE CloseEach(_, _, _)
CloseEach(w, p, ls) ==
  IF ls = {} THEN w
  ELSE LET l == CHOOSE x \in ls : \A y \in ls : x <= y
       IN  CloseEach(CloseEnd(w, p, l), p, ls \ {l})

\* peer.destroy()
PeerDestroy(w, p) == CloseEach(w, p, PeerConns(w, p))

\* conn.send(msg) by the sender on l: queued when its end is open, otherwise the
\* connection's 'error' event fires and conn.on('error') stores the message.
SenderSend(w, l, msg) ==
  IF w.link[l].s = "open"
    THEN [w EXCEPT !.link[l].toR = Append(@, msg),
                   !.link[l].sent = IF msg.type = "chunk" THEN Append(@, msg.offset) ELSE @]
    ELSE [w EXCEPT !.app[Sender].errorStatus = "Connection is not open."]

\* conn.send(msg) by the receiver on l (only ever called while its end is open)
ReceiverSend(w, l, msg) ==
  [w EXCEPT !.link[l].toS = Append(@, msg),
            !.link[l].reqs = IF msg.type = "request-chunk" THEN Append(@, msg.offset) ELSE @]

---------------------------------------------------------------------------
(* Functions of the App component.                                         *)

\* connRef.current.close(); connRef.current = null (lines 441-444)
CloseConnRef(w, p) ==
  IF IsLinkRef(w.app[p].connRef) THEN CloseEnd(w, p, Get(w.app[p].connRef)) ELSE w

\* peerRef.current.destroy(); peerRef.current = null (lines 445-448)
DestroyPeerRef(w, p) ==
  IF w.app[p].peerRef # Nothing THEN PeerDestroy(w, p) ELSE w

\* The state setters of lines 449-460 (and the two refs nulled above)
ClearSession(w, p) ==
  [w EXCEPT !.app[p] =
     [@ EXCEPT !.connRef = Nothing,
               !.peerRef = Nothing,
               !.peerOpen = FALSE,
               !.peerErr = FALSE,
               !.isConnected = FALSE,
               !.transferProgress = 0 - 1,
               !.fileMeta = Nothing,
               !.receivedChunks = <<>>,
               !.receivedBytes = 0,
               !.completedFile = Nothing,
               !.chatMessages = <<>>,
               !.errorStatus = None,
               !.connTime = 0,
               !.selfDestructSec = 0,
               !.peerCount = 0]]

\* multiConnsRef.current.forEach(c => c.close()), on the array as it is by then
\* (line 462)
CloseRoom(w, p) == CloseEach(w, p, {l \in Links : InSeq(w.app[p].multiConns, l)})

\* multiConnsRef.current = []; clearInterval(selfDestructRef.current) (lines 463-464)
ForgetRoom(w, p) ==
  [w EXCEPT !.app[p] = [@ EXCEPT !.multiConns = <<>>, !.sdTimer = FALSE, !.armedAt = 0]]

\* resetConnection (lines 440-465)
resetConnection(w, p) ==
  ForgetRoom(CloseRoom(ClearSession(DestroyPeerRef(CloseConnRef(w, p), p), p), p), p)

\* initSender (lines 525-586), called from the effect of lines 588-592 with the
\* shareCode of the render the effect belongs to.
initSender(w, p, shareCode) ==
  IF shareCode = <<>> THEN w
  ELSE LET w1 == resetConnection(w, p)
       IN  [w1 EXCEPT !.app[p] =
              [@ EXCEPT !.errorStatus = None,
                        !.peerRef = Just(Peer(SenderIdentity(shareCode), shareCode, None, 0))]]

\* Cleanup of the effect on [mode] (lines 225-231)
CleanupMode(w, p) ==
  LET w1 == resetConnection(w, p)
  IN  [w1 EXCEPT !.app[p] = [@ EXCEPT !.fileToShare = Nothing, !.fileToShareRef = Nothing]]

\* Body of the self-destruct effect (lines 250-263) for the render `cur`
SelfDestructEffect(w, p, cur, sdCh) ==
  IF sdCh /\ cur.transferProgress >= 100 /\ cur.isConnected
    THEN [w EXCEPT !.app[p] = [@ EXCEPT !.selfDestructSec = SELF_DESTRUCT_SEC,
                                        !.sdTimer = TRUE, !.armedAt = now]]
    ELSE w

\* The effect on [isConnected] (lines 267-277) for the render `cur`, after its
\* cleanup has cleared the interval of the previous render: a new interval and
\* setConnTime(0) when connected, no interval otherwise.
ConnTimerEffect(w, p, cur, connCh) ==
  IF ~connCh THEN w
  ELSE IF cur.isConnected
    THEN [w EXCEPT !.app[p] = [@ EXCEPT !.connTime = 0, !.connTimer = TRUE]]
    ELSE [w EXCEPT !.app[p].connTimer = FALSE]

\* Cleanups of the effects of the previous render whose dependencies changed,
\* in source order: the effect on [mode] (lines 225-231), the self-destruct
\* effect on [transferProgress, isConnected] (line 264).
EffectCleanups(w, p, modeCh, sdCh) ==
  IF modeCh
    THEN [CleanupMode(w, p) EXCEPT !.app[p].sdTimer = IF sdCh THEN FALSE ELSE @,
                                   !.app[p].armedAt = IF sdCh THEN 0 ELSE @]
    ELSE [w EXCEPT !.app[p].sdTimer = IF sdCh THEN FALSE ELSE @,
                   !.app[p].armedAt = IF sdCh THEN 0 ELSE @]

\* The share-code effect (lines 144-149) of the render `cur`
ShareCodeEffect(w, p, cur, modeCh, gen) ==
  IF modeCh /\ cur.mode = "send" THEN [w EXCEPT !.app[p].shareCode = gen] ELSE w

\* The effect that starts the sender (lines 588-592) of the render `cur`
InitSenderEffect(w, p, cur, initCh) ==
  IF initCh /\ cur.mode = "send" /\ cur.shareCode # <<>> /\ w.app[p].peerRef = Nothing
    THEN initSender(w, p, cur.shareCode) ELSE w

\* The effects a render of p runs, and the renders they cause in turn.  `prev` is
\* the state of the previous render, w.app[p] the state of this one; gen is the
\* code generateCode() returns if it is called.
RECURSIVE RunEffects(_, _, _, _)
RunEffects(w0, p, prev, gen) ==
  Only({
  LET cur == w.app[p]
      modeCh == cur.mode # prev.mode
      sdCh == cur.transferProgress # prev.transferProgress \/ cur.isConnected # prev.isConnected
      connCh == cur.isConnected # prev.isConnected
      initCh == modeCh \/ cur.shareCode # prev.shareCode
  IN  IF ~(modeCh \/ sdCh \/ initCh) THEN w
      ELSE RunEffects(
             InitSenderEffect(
               ConnTimerEffect(
                 SelfDestructEffect(
                   ShareCodeEffect(EffectCleanups(w, p, modeCh, sdCh), p, cur, modeCh, gen),
                   p, cur, sdCh),
                 p, cur, connCh),
               p, cur, initCh),
             p, cur, gen)
  : w \in {w0}})

\* A connection slot whose two ends are closed and that nothing can act on any more.
Collectable(w, l) ==
  LET k == w.link[l] IN
    /\ k.owner # None
    /\ k.r = "closed"
    /\ k.s \in {"none", "closed"}
    /\ ~k.hs
    /\ ~InSeq(w.app[Sender].multiConns, l)
    /\ \A i \in 1..Len(w.reads) : w.reads[i].conn # l

\* Forget the connection objects nothing can act on; references to them become
\* references to a dead connection, on which every call is a no-op.
Collect(w0) ==
  Only({
    Only({
      [w EXCEPT
         !.link = [l \in Links |-> IF l \in gone THEN FreeLink ELSE w.link[l]],
         !.app = [p \in Participants |->
                    IF IsLinkRef(w.app[p].connRef) /\ Get(w.app[p].connRef) \in gone
                      THEN [w.app[p] EXCEPT !.connRef = DeadConn] ELSE w.app[p]]]
      : gone \in {{l \in Links : Collectable(w, l)}}})
    : w \in {w0}})

\* History: a countdown that runs before a handler and not after it was stopped
\* before its end (clearInterval, lines 264 and 464).
Noted(c0) ==
  Only({
    [c EXCEPT !.app = [p \in Participants |->
       IF app[p].sdTimer /\ ~c.app[p].sdTimer
         THEN [c.app[p] EXCEPT !.cancelled = Just(app[p].armedAt)] ELSE c.app[p]]]
    : c \in {c0}})

\* The step of participant p: its handler has produced w; render, run effects.
Commit(c0) ==
  \E c \in {c0} :
    /\ app' = c.app
    /\ link' = c.link
    /\ reads' = c.reads
    /\ env' = env
    /\ calc' = calc

\* A network or timer event handled by p.
Handled(w, p, gen) ==
  /\ now \in env.busy
  /\ Commit(Noted(Collect(RunEffects(w, p, app[p], gen))))
  /\ now' = now
  /\ acts' = acts

\* A user event handled by p.
UserHandled(w, p, gen) ==
  /\ acts < env.events
  /\ now \in env.busy
  /\ Commit(Noted(Collect(RunEffects(w, p, app[p], gen))))
  /\ now' = now
  /\ acts' = acts + 1

---------------------------------------------------------------------------
(* The sender.                                                             *)

\* The 'send' card of the idle screen (line 1028): setMode('send')
EnterSend ==
  /\ app[Sender].mode = "idle"
  /\ \E gen \in env.genCodes :
       UserHandled([World EXCEPT !.app[Sender].mode = "send"], Sender, gen)

\* The X button of send mode (line 1097)
LeaveSend ==
  /\ app[Sender].mode = "send"
  /\ LET w1 == [World EXCEPT !.app[Sender] = [@ EXCEPT !.shareCode = <<>>, !.fileToShare = Nothing]]
         w2 == resetConnection(w1, Sender)
     IN  UserHandled([w2 EXCEPT !.app[Sender].mode = "idle"], Sender, <<>>)

\* processFiles (lines 732-764): the drop zone and the pickers are rendered only
\* while no file is selected (line 1103).
SelectFile ==
  /\ app[Sender].mode = "send"
  /\ app[Sender].fileToShare = Nothing
  /\ \E f \in env.files :
       UserHandled([World EXCEPT !.app[Sender] =
                  [@ EXCEPT !.fileToShare = Just(f), !.fileToShareRef = Just(f)]], Sender, <<>>)

\* The remove-file button (lines 1170-1174)
RemoveFile ==
  /\ app[Sender].mode = "send"
  /\ app[Sender].fileToShare # Nothing
  /\ app[Sender].transferProgress <= 0
  /\ ~app[Sender].isConnected
  /\ UserHandled([World EXCEPT !.app[Sender].fileToShare = Nothing], Sender, <<>>)

\* A broadcast that calls send on every connection of the set, open or not.
RECURSIVE broadcastUnguarded(_, _, _)
broadcastUnguarded(w, conns, msg) ==
  IF conns = <<>> THEN w
  ELSE broadcastUnguarded(SenderSend(w, Head(conns), msg), Tail(conns), msg)

\* broadcastToAll in send mode (lines 915-917): if (c.open) c.send(msg) for the
\* connections of multiConnsRef.current in their order
RECURSIVE broadcastToAll(_, _, _)
broadcastToAll(w, conns, msg) ==
  IF conns = <<>> THEN w
  ELSE broadcastToAll(IF w.link[Head(conns)].s = "open"
                        THEN SenderSend(w, Head(conns), msg) ELSE w,
                      Tail(conns), msg)

\* sendChatMessage on the sender (lines 923-931).  The chat panel is rendered
\* in every mode but idle (line 1493); while nobody is connected an overlay
\* covers it, and the form can still be reached and submitted from the keyboard.
sendChatMessage ==
  /\ app[Sender].mode = "send"
  /\ \E text \in env.chat :
       UserHandled([broadcastToAll(World, app[Sender].multiConns,
                                   [type |-> "chat", text |-> text])
                      EXCEPT !.app[Sender].chatMessages =
                               Append(@, [text |-> text, sender |-> "me"])],
                   Sender, <<>>)

\* peer.on('connection') (lines 540-543)
SenderOnConnection(l) ==
  /\ link[l].s = "none"
  /\ link[l].r = "connecting"
  /\ app[Sender].peerRef # Nothing
  /\ Get(app[Sender].peerRef).id = link[l].target
  /\ Handled([World EXCEPT
                !.link[l] = [@ EXCEPT !.s = "pending", !.scode = Get(app[Sender].peerRef).code],
                !.app[Sender] = [@ EXCEPT !.connRef = Just(l),
                                          !.multiConns = Append(@, l),
                                          !.peerCount = @ + 1]], Sender, <<>>)

\* conn.on('open') on the sender (lines 545-547)
SenderConnOpen(l) ==
  /\ link[l].s = "pending"
  /\ link[l].r \in {"connecting", "open"}
  /\ Handled([World EXCEPT !.link[l].s = "open",
                           !.app[Sender].isConnected = TRUE], Sender, <<>>)

\* A sendChunk that does not clamp the end of the slice to the file size.
sendChunkStartNoClamp(w, offset, l) ==
  IF w.app[Sender].fileToShareRef = Nothing THEN w
  ELSE [w EXCEPT !.reads = Append(@,
          [conn |-> l, offset |-> offset, file |-> Get(w.app[Sender].fileToShareRef),
           end |-> offset + CHUNK_SIZE,
           code |-> w.link[l].scode])]

\* sendChunk up to its await (lines 492-501): the file and its slice are fixed here.
sendChunkStart(w, offset, l) ==
  LET file == w.app[Sender].fileToShareRef IN
    IF file = Nothing THEN w
    ELSE [w EXCEPT !.reads = Append(@,
            [conn |-> l, offset |-> offset, file |-> Get(file),
             end |-> Min(offset + CHUNK_SIZE, Get(file).size),
             code |-> w.link[l].scode])]

\* conn.on('data') on the sender (lines 549-568)
SenderOnData(l) ==
  /\ link[l].s = "open"
  /\ link[l].toS # <<>>
  /\ LET msg == Head(link[l].toS)
         w0 == [World EXCEPT !.link[l].toS = Tail(@)]
         ref == app[Sender].fileToShareRef
         w1 == IF msg.type = "request-metadata"
                 THEN IF ref # Nothing
                        THEN SenderSend(w0, l, [type |-> "metadata", name |-> Get(ref).name,
                                                size |-> Get(ref).size, mime |-> Get(ref).type])
                        ELSE w0
               ELSE IF msg.type = "request-chunk"
                 THEN sendChunkStart(w0, msg.offset, l)
               ELSE w0
     IN  Handled(w1, Sender, <<>>)

\* Progress the sender reports after a chunk (lines 517-518)
SenderProgress(end, size) ==
  IF end = size THEN 100 ELSE Min(99, RoundPercent(end, size))

\* sendChunk after its await (lines 503-518)
sendChunkResume(w, rd) ==
  LET scrambled == XorBuffer(Slice(rd.file, rd.offset, rd.end), DeriveKey(rd.code))
      w1 == SenderSend(w, rd.conn, [type |-> "chunk", buffer |-> scrambled, offset |-> rd.offset])
  IN  [w1 EXCEPT !.app[Sender].transferProgress = SenderProgress(rd.end, rd.file.size)]

RemoveAt(q, i) == SubSeq(q, 1, i - 1) \o SubSeq(q, i + 1, Len(q))

\* The read of a suspended sendChunk completes.
SendChunkDone ==
  \E i \in 1..Len(reads) :
    Handled(sendChunkResume([World EXCEPT !.reads = RemoveAt(@, i)], reads[i]), Sender, <<>>)

\* The sender's Peer emits 'error' (its identity is taken, or the signalling
\* server cannot be reached).  initSender registers 'open' and 'connection'
\* only (lines 536-583): no handler runs and no state changes.
SenderPeerError ==
  /\ app[Sender].peerRef # Nothing
  /\ ~app[Sender].peerErr
  /\ UserHandled([World EXCEPT !.app[Sender].peerErr = TRUE], Sender, <<>>)

\* The sender's end learns that the receiver's end has closed: conn.on('close')
\* (lines 570-577)
SenderConnClose(l) ==
  /\ link[l].s = "open"
  /\ link[l].r = "closed"
  /\ Handled(CloseSenderEnd(World, l), Sender, <<>>)

---------------------------------------------------------------------------
(* The receivers.                                                          *)

\* The 'receive' card of the idle screen (line 1039): setMode('receive')
EnterReceive(r) ==
  /\ app[r].mode = "idle"
  /\ UserHandled([World EXCEPT !.app[r].mode = "receive"], r, <<>>)

\* The X button of receive mode (line 1280): setMode('idle')
LeaveReceive(r) ==
  /\ app[r].mode = "receive"
  /\ UserHandled([World EXCEPT !.app[r].mode = "idle"], r, <<>>)

\* The connect form is rendered only while not connected and transferProgress
\* is -1 (line 1292).
FormVisible(r) ==
  app[r].mode = "receive" /\ ~app[r].isConnected /\ app[r].transferProgress = 0 - 1

\* Typing into the code field (line 1301)
TypeCode(r) ==
  /\ FormVisible(r)
  /\ \E c \in env.typed :
       /\ c # app[r].receiveCode
       /\ UserHandled([World EXCEPT !.app[r].receiveCode = c], r, <<>>)

\* handleConnectReceiver up to `new Peer` (lines 598-610, 718); the submit button
\* is disabled under 11 characters (line 1315).
handleConnectReceiver(r) ==
  /\ FormVisible(r)
  /\ Len(app[r].receiveCode) >= 11
  /\ LET w1 == resetConnection(World, r)
         code == app[r].receiveCode
     IN  UserHandled([w1 EXCEPT !.app[r] =
                    [@ EXCEPT !.errorStatus = None,
                              !.transferProgress = 0,
                              !.peerRef = Just(Peer(<<"anonymous">>, code, "manual",
                                                    app[r].transferProgress))]], r, <<>>)

\* The page is opened with ?room=code (lines 152-160): the mount effect stores
\* the code, enters receive mode and schedules the connect of lines 161-219.
AutoJoin(r) ==
  /\ app[r] = InitApp
  /\ \E c \in env.urls :
       UserHandled([World EXCEPT !.app[r] =
                      [@ EXCEPT !.receiveCode = c,
                                !.mode = "receive",
                                !.joinTimer = Just([path |-> "auto", code |-> c])]], r, <<>>)

\* connectToDevice (lines 837-841), from the nearby panel, which every mode
\* renders (line 1569) with the room code the sender announces (line 386).
connectToDevice(r) ==
  /\ env.nearby
  /\ app[Sender].shareCode # <<>>
  /\ app[r].joinTimer = Nothing
  /\ UserHandled([World EXCEPT !.app[r] =
                     [@ EXCEPT !.mode = "receive",
                               !.receiveCode = app[Sender].shareCode,
                               !.joinTimer = Just([path |-> "nearby",
                                                   code |-> app[Sender].shareCode])]], r, <<>>)

\* The callback of the setTimeout of the two paths above up to `new Peer`
\* (lines 162-170 and 218; lines 843-851 and 911)
JoinTimeout(r) ==
  /\ app[r].joinTimer # Nothing
  /\ LET w1 == resetConnection(World, r)
         j == Get(app[r].joinTimer)
     IN  Handled([w1 EXCEPT !.app[r] =
                    [@ EXCEPT !.errorStatus = None,
                              !.transferProgress = 0,
                              !.joinTimer = Nothing,
                              !.peerRef = Just(Peer(<<"anonymous">>, j.code, j.path, 0))]], r, <<>>)

FreeLinks == {l \in env.slots : link[l].owner = None}

\* peer.on('open') on a receiver (lines 612-617): peer.connect(targetId)
ReceiverPeerOpen(r) ==
  /\ app[r].peerRef # Nothing
  /\ ~app[r].peerOpen
  /\ FreeLinks # {}
  /\ LET l == CHOOSE x \in FreeLinks : \A y \in FreeLinks : x <= y
         pr == Get(app[r].peerRef)
     IN  Handled([World EXCEPT
                    !.link[l] = [FreeLink EXCEPT !.owner = r,
                                                 !.target = ReceiverTarget(pr.code),
                                                 !.r = "connecting",
                                                 !.code = pr.code,
                                                 !.path = pr.path,
                                                 !.capProgress = pr.capProgress],
                    !.app[r] = [@ EXCEPT !.peerOpen = TRUE, !.connRef = Just(l)]], r, <<>>)

\* conn.on('open') on a receiver (lines 619-632): the handshake interval starts
ReceiverConnOpen(l) ==
  /\ link[l].r = "connecting"
  /\ link[l].s \in {"pending", "open"}
  /\ Handled([World EXCEPT !.link[l] = [@ EXCEPT !.r = "open", !.hs = TRUE],
                           !.app[link[l].owner].isConnected = TRUE], link[l].owner, <<>>)

InFlight(l) ==
  Len(link[l].toS) + Len(link[l].toR) + Cardinality({i \in 1..Len(reads) : reads[i].conn = l})

\* A handshake tick that tests only conn.open.
HandshakeTickBlind(l) ==
  /\ link[l].hs
  /\ IF link[l].r # "open"
       THEN Handled([World EXCEPT !.link[l].hs = FALSE], link[l].owner, <<>>)
       ELSE /\ InFlight(l) < env.queue
            /\ Handled(ReceiverSend(World, l, [type |-> "request-metadata"]), link[l].owner, <<>>)

\* One tick of handshakeInterval (lines 624-631)
HandshakeTick(l) ==
  /\ link[l].hs
  /\ LET r == link[l].owner IN
       IF app[r].fileMeta # Nothing \/ link[l].r # "open"
         THEN Handled([World EXCEPT !.link[l].hs = FALSE], r, <<>>)
         ELSE /\ InFlight(l) < env.queue
              /\ Handled(ReceiverSend(World, l, [type |-> "request-metadata"]), r, <<>>)

\* finalizeDownload (lines 721-727)
finalizeDownload(w, r, name, type) ==
  [w EXCEPT !.app[r] =
     [@ EXCEPT !.completedFile = Just([blob |-> w.app[r].receivedChunks, name |-> name, type |-> type]),
               !.transferProgress = 100]]

\* Progress the receiver reports while bytes are missing (lines 678-681)
ReceiverProgress(bytes, size) == Min(99, RoundPercent(bytes, size))

\* A metadata branch without the test of fileMetaRef: every reply restarts the
\* transfer.
OnMetadataAlways(w, l, msg) ==
  ReceiverSend(
    [w EXCEPT !.link[l].metas = @ + 1,
              !.app[w.link[l].owner] =
                [@ EXCEPT !.fileMeta = Just([name |-> msg.name, size |-> msg.size, type |-> msg.mime]),
                          !.receivedChunks = <<>>,
                          !.receivedBytes = 0,
                          !.transferProgress = 0]],
    l, [type |-> "request-chunk", offset |-> 0])

\* The metadata branch of conn.on('data') (lines 636-655)
OnMetadata(w, l, msg) ==
  LET r == w.link[l].owner IN
    IF w.app[r].fileMeta = Nothing
      THEN ReceiverSend(
             [w EXCEPT !.link[l].metas = @ + 1,
                       !.app[r] =
                [@ EXCEPT !.fileMeta = Just([name |-> msg.name, size |-> msg.size, type |-> msg.mime]),
                          !.receivedChunks = <<>>,
                          !.receivedBytes = 0,
                          !.transferProgress = 0]],
             l, [type |-> "request-chunk", offset |-> 0])
      ELSE [w EXCEPT !.link[l].metas = @ + 1]

\* A receiver that asks for two chunks ahead after each push.
AfterChunkEager(w, l) ==
  ReceiverSend(
    ReceiverSend([w EXCEPT !.app[w.link[l].owner].transferProgress = 1],
                 l, [type |-> "request-chunk", offset |-> w.app[w.link[l].owner].receivedBytes]),
    l, [type |-> "request-chunk", offset |-> w.app[w.link[l].owner].receivedBytes + CHUNK_SIZE])

\* What follows the push of a chunk (lines 676-689)
AfterChunk(w, l) ==
  LET r == w.link[l].owner
      a == w.app[r]
  IN  IF a.fileMeta = Nothing THEN w
      ELSE LET meta == Get(a.fileMeta) IN
        IF a.receivedBytes < meta.size
          THEN ReceiverSend(
                 [w EXCEPT !.app[r].transferProgress = ReceiverProgress(a.receivedBytes, meta.size)],
                 l, [type |-> "request-chunk", offset |-> a.receivedBytes])
          ELSE finalizeDownload([w EXCEPT !.app[r].transferProgress = 100], r, meta.name, meta.type)

\* The chunk branch of conn.on('data') after the XOR loop (lines 667-690; 189-208
\* and 875-895 for the other two entry paths, which do not test the length)
StoreChunk(w, l, r, scrambled) ==
  IF w.link[l].path = "manual" /\ scrambled.len = 0
    THEN [w EXCEPT !.app[r].errorStatus = "Data parsing error: Received chunk has zero length."]
    ELSE AfterChunk(
           [w EXCEPT !.app[r] = [@ EXCEPT !.receivedChunks = Append(@, scrambled),
                                          !.receivedBytes = @ + scrambled.len]], l)

\* The chunk branch of conn.on('data') (lines 656-666)
OnChunk(w, l, msg) ==
  StoreChunk(w, l, w.link[l].owner, XorBuffer(msg.buffer, DeriveKey(w.link[l].code)))

\* The chat branch of conn.on('data') (lines 691-693, 209-211, 896-898)
OnChat(w, l, msg) ==
  [w EXCEPT !.app[w.link[l].owner].chatMessages =
              Append(@, [text |-> msg.text, sender |-> "peer"])]

\* conn.on('data') on a receiver (lines 634-698)
ReceiverOnData(l) ==
  /\ link[l].r = "open"
  /\ link[l].toR # <<>>
  /\ Len(app[link[l].owner].receivedChunks) < env.chunks
  /\ LET msg == Head(link[l].toR)
         w0 == [World EXCEPT !.link[l].toR = Tail(@)]
         w1 == IF msg.type = "metadata" THEN OnMetadata(w0, l, msg)
               ELSE IF msg.type = "chunk" THEN OnChunk(w0, l, msg)
               ELSE IF msg.type = "chat" THEN OnChat(w0, l, msg)
               ELSE w0
     IN  Handled(w1, link[l].owner, <<>>)

\* The receiver's end learns that the sender's end has closed: conn.on('close')
\* (lines 700-705)
ReceiverConnClose(l) ==
  /\ link[l].r = "open"
  /\ link[l].s = "closed"
  /\ Handled(CloseReceiverEnd(World, l), link[l].owner, <<>>)

\* The text peer.on('error') shows: line 714 on the manual path, t('errorPeer')
\* on the two others (lines 217 and 907; t returns the key when no translation
\* is found, line 111).
PeerErrorText(path) ==
  IF path = "manual" THEN "Error: Could not find or connect to that peer. Check the code."
  ELSE "errorPeer"

\* peer.on('error') on a receiver (lines 712-716): PeerJS raises it when the target
\* identity has no listener and on any failure of the signalling connection.
ReceiverPeerError(r) ==
  /\ app[r].peerRef # Nothing
  /\ \/ app[r].errorStatus # PeerErrorText(Get(app[r].peerRef).path)
     \/ app[r].transferProgress # 0 - 1
  /\ UserHandled([World EXCEPT !.app[r] =
                    [@ EXCEPT !.errorStatus = PeerErrorText(Get(app[r].peerRef).path),
                              !.transferProgress = 0 - 1,
                              !.peerErr = TRUE]], r, <<>>)

---------------------------------------------------------------------------
(* Timers.                                                                 *)

\* A countdown that tears down one tick late (prev <= 0).
SelfDestructTickLate(w, p) ==
  IF w.app[p].selfDestructSec <= 0
    THEN [resetConnection(w, p) EXCEPT !.app[p].mode = "idle"]
    ELSE [w EXCEPT !.app[p].selfDestructSec = @ - 1]

\* One run of the callback of the self-destruct interval (lines 253-262)
SelfDestructTick(w, p) ==
  IF w.app[p].selfDestructSec <= 1
    THEN LET w1 == resetConnection(w, p)
         IN  [w1 EXCEPT !.app[p] = [@ EXCEPT !.mode = "idle", !.selfDestructSec = 0]]
    ELSE [w EXCEPT !.app[p].selfDestructSec = @ - 1]

\* A callback that outlives its interval: it runs every second whether or not
\* the countdown is still running.
SecondOfOrphan(w, p) == RunEffects(SelfDestructTick(w, p), p, w.app[p], <<>>)

\* One run of the callback of the connection timer (line 271)
ConnTick(w, p) ==
  IF w.app[p].connTimer THEN [w EXCEPT !.app[p].connTime = @ + 1] ELSE w

\* One second passes for participant p: the callbacks of its intervals, each
\* with its render and effects.  The two callbacks write different state unless
\* the countdown ends, and then the counter is 0 and its interval is cleared
\* in either order.
SecondOf(w0, p) ==
  Only({
    IF w.app[p].sdTimer THEN RunEffects(SelfDestructTick(w, p), p, w.app[p], <<>>) ELSE w
    : w \in {ConnTick(w0, p)}})

RECURSIVE SecondOfEach(_, _)
SecondOfEach(w, ps) ==
  IF ps = {} THEN w
  ELSE LET p == CHOOSE x \in ps : TRUE IN SecondOfEach(SecondOf(w, p), ps \ {p})

\* One second passes: every running one-second interval fires once.  The
\* callbacks run in different browsers and touch disjoint state, so their order
\* within the second does not matter.  A second in which no countdown runs is
\* one of the first env.idle seconds of the run.
SecondTick ==
  /\ \/ \E p \in Participants : app[p].sdTimer
     \/ now < env.idle /\ \E p \in Participants : app[p].connTimer
  /\ now < env.seconds
  /\ Commit(Collect(SecondOfEach(World, Participants)))
  /\ now' = now + 1
  /\ acts' = acts

---------------------------------------------------------------------------
(* Specifications.                                                         *)

InitWith(e) ==
  /\ app = [p \in Participants |-> InitApp]
  /\ link = [l \in Links |-> FreeLink]
  /\ reads = <<>>
  /\ now = 0
  /\ acts = 0
  /\ env = e
  /\ calc = Nothing

\* User events one transfer to every receiver in us needs: EnterSend, SelectFile
\* and, per receiver, EnterReceive, TypeCode, handleConnectReceiver.
TransferEvents(us) == 2 + 3 * Cardinality(us)

\* The same for one receiver that joins by link or from the nearby panel:
\* EnterSend, SelectFile and the receiver's one event.
LinkEvents == 3

\* The seconds of a run in which events other than the passing of a second
\* happen: its first ones and, where the run covers the countdown, the ones
\* around the countdown's end.
Early == 0..MaxSeconds

Late == (SELF_DESTRUCT_SEC - MaxSeconds)..(SELF_DESTRUCT_SEC + MaxSeconds)

Env(us, fs, gens, typed, urls, nearby, queue, busy, secs, evs) ==
  [users |-> us, files |-> fs, genCodes |-> gens, typed |-> typed,
   urls |-> urls, nearby |-> nearby,
   slots |-> 1..(Cardinality(us) + SpareLinks),
   queue |-> queue, chunks |-> MaxChunks,
   busy |-> busy, seconds |-> secs, idle |-> 0, chat |-> {}, events |-> evs]

SenderUser == EnterSend \/ LeaveSend \/ SelectFile \/ RemoveFile \/ sendChatMessage

SenderNet ==
  \/ \E l \in Links : SenderOnConnection(l)
  \/ \E l \in Links : SenderConnOpen(l)
  \/ \E l \in Links : SenderOnData(l)
  \/ SendChunkDone
  \/ \E l \in Links : SenderConnClose(l)
  \/ SenderPeerError

ReceiverUser ==
  \/ \E r \in env.users : EnterReceive(r)
  \/ \E r \in env.users : LeaveReceive(r)
  \/ \E r \in env.users : TypeCode(r)
  \/ \E r \in env.users : handleConnectReceiver(r)
  \/ \E r \in env.users : AutoJoin(r)
  \/ \E r \in env.users : connectToDevice(r)

ReceiverNet ==
  \/ \E r \in env.users : JoinTimeout(r)
  \/ \E r \in env.users : ReceiverPeerOpen(r)
  \/ \E l \in Links : ReceiverConnOpen(l)
  \/ \E l \in Links : HandshakeTick(l)
  \/ \E l \in Links : ReceiverOnData(l)
  \/ \E l \in Links : ReceiverConnClose(l)
  \/ \E r \in env.users : ReceiverPeerError(r)

Next == SenderUser \/ SenderNet \/ ReceiverUser \/ ReceiverNet \/ SecondTick

\* One sender and one receiver.  The receiver types the room code, in a run
\* from the first second to the end of the countdown, or opens the sender's
\* link, or picks the sender in the nearby panel, in a run of the first seconds.
InitManual ==
  InitWith(Env({"r1"}, {FileBig, FileEdge, FileEmpty}, {CodeA}, {CodeA, CodeAPin}, {}, FALSE,
               MaxQueue, Early \cup Late, SELF_DESTRUCT_SEC + MaxSeconds,
               TransferEvents({"r1"}) + ExtraEvents))

InitLink ==
  InitWith(Env({"r1"}, {FileEdge, FileEmpty}, {CodeA}, {}, {CodeA}, FALSE,
               MaxQueue, Early, MaxSeconds, LinkEvents + ExtraEvents))

InitNearby ==
  InitWith(Env({"r1"}, {FileEdge, FileEmpty}, {CodeA}, {}, {}, TRUE,
               MaxQueue, Early, MaxSeconds, LinkEvents + ExtraEvents))

\* One sender whose generateCode may return two codes and one receiver of a
\* one-chunk file, with one user event beyond one transfer.
InitCodes ==
  InitWith(Env({"r1"}, {FileSmall}, {CodeA, CodeB}, {CodeA}, {}, FALSE,
               RoomQueue, Early \cup Late, SELF_DESTRUCT_SEC + MaxSeconds,
               TransferEvents({"r1"}) + 1))

\* One sender who may send a chat message and one receiver of a one-chunk file
\* in the first seconds of a run, in which seconds pass whether or not a
\* countdown runs.
InitClock ==
  InitWith([Env({"r1"}, {FileSmall}, {CodeA}, {CodeA}, {}, FALSE,
                RoomQueue, Early, MaxSeconds, TransferEvents({"r1"}))
              EXCEPT !.idle = MaxSeconds, !.chat = {"hello"}])

\* One sender and two receivers of a two-chunk file in the first second of a
\* run.
InitPair ==
  InitWith(Env({"r1", "r2"}, {FileEdge}, {CodeA}, {CodeA}, {}, FALSE, RoomQueue,
               {0}, 0, TransferEvents({"r1", "r2"})))

Init == InitManual \/ InitLink \/ InitNearby \/ InitCodes \/ InitClock \/ InitPair

Spec == Init /\ [][Next]_vars

\* One sender and two receivers of a one-chunk file.
InitRoomManual ==
  InitWith(Env({"r1", "r2"}, {FileSmall}, {CodeA}, {CodeA}, {}, FALSE, RoomQueue,
               Early \cup Late, SELF_DESTRUCT_SEC + MaxSeconds,
               TransferEvents({"r1", "r2"})))

\* A room whose one receiver joins by link or from the nearby panel.
InitRoomLink ==
  InitWith(Env({"r1"}, {FileSmall}, {CodeA}, {}, {CodeA}, TRUE, RoomQueue,
               Early, MaxSeconds, LinkEvents))

\* One sender who may send a chat message and two receivers of a one-chunk
\* file in the first second of a run.
InitRoomChat ==
  InitWith([Env({"r1", "r2"}, {FileSmall}, {CodeA}, {CodeA}, {}, FALSE, RoomQueue,
                {0}, 0, TransferEvents({"r1", "r2"}) + 1)
              EXCEPT !.chat = {"hello"}])

InitRoom == InitRoomManual \/ InitRoomLink \/ InitRoomChat

SpecRoom == InitRoom /\ [][Next]_vars

\* The runs with fair delivery: one receiver, one file of each
\* kind of positive size.
LiveUsers == {"r1"}
LiveFiles == {FileEdge, FileSmall}
LiveLinks == 1..(Cardinality(LiveUsers) + SpareLinks)

\* Messages, opened connections, completed reads and timer ticks are delivered:
\* every handler of the network, of a timeout or of an interval that stays
\* enabled runs.  User events and failures of a Peer are not forced.
Fairness ==
  /\ \A l \in LiveLinks :
       /\ WF_vars(SenderOnConnection(l)) /\ WF_vars(SenderConnOpen(l))
       /\ WF_vars(SenderOnData(l)) /\ WF_vars(SenderConnClose(l))
       /\ WF_vars(ReceiverConnOpen(l)) /\ WF_vars(HandshakeTick(l))
       /\ WF_vars(ReceiverOnData(l)) /\ WF_vars(ReceiverConnClose(l))
  /\ \A r \in LiveUsers : WF_vars(JoinTimeout(r)) /\ WF_vars(ReceiverPeerOpen(r))
  /\ WF_vars(SendChunkDone)
  /\ WF_vars(SecondTick)

\* One sender and one receiver in the first seconds of a run, the receiver
\* joining by any of the three paths, under fair delivery.
InitLiveManual ==
  InitWith(Env(LiveUsers, LiveFiles, {CodeA}, {CodeA}, {}, FALSE,
               MaxQueue, Early, MaxSeconds, TransferEvents(LiveUsers) + ExtraEvents))

InitLive == InitLiveManual \/ InitLink \/ InitNearby \/ InitClock

SpecLive == InitLive /\ [][Next]_vars /\ Fairness

\* One sender and one receiver of a one-chunk file, with one user event beyond
\* one transfer, in a run from the first second to the end of the countdown.
InitDoomManual ==
  InitWith(Env(LiveUsers, {FileSmall}, {CodeA}, {CodeA}, {}, FALSE,
               RoomQueue, Early \cup Late, SELF_DESTRUCT_SEC + MaxSeconds,
               TransferEvents(LiveUsers) + 1))

InitDoom == InitDoomManual \/ InitLink \/ InitNearby \/ InitClock

\* The runs over the whole countdown with fair delivery.
SpecDoom == InitDoom /\ [][Next]_vars /\ Fairness

---------------------------------------------------------------------------
(* The functions of the code on their own: key, identities and the XOR     *)
(* loop applied to a drawn room code, the code as a receiver types it, and *)
(* drawn bytes cut into chunks.                                            *)

\* The byte the loop XORs every byte with: (pin % 256) as the store into a
\* Uint8Array truncates it (lines 507-509)
KeyByte(code) == DeriveKey(code) % 256

\* A loop that adds the key to every byte instead.
AddBytes(b, key) == [i \in 1..Len(b) |-> (b[i] + key) % 256]

\* for (i...) scrambled[i] ^= (pin % 256), on the bytes themselves
XorBytes(b, key) == [i \in 1..Len(b) |-> Scramble(b[i], key)]

CalcCodes ==
  {CodeA, CodeB, CodeAPin, CodeAWrap, CodeANoPin, CodeAText, CodeAZero, CodeALead}

\* The sender's code and what the receiver has: the same code, or the code
\* in another letter case.
CalcRooms ==
  {[code |-> c, typed |-> c] : c \in CalcCodes}
    \cup {[code |-> CodeA, typed |-> CodeAUp], [code |-> CodeA, typed |-> CodeAMix],
          [code |-> CodeB, typed |-> CodeBUp]}

CalcBytes == {<<>>, <<0>>, <<255>>, <<1, 128, 255>>, <<170, 85, 0, 7, 200>>}

InitCalc ==
  /\ app = [p \in Participants |-> InitApp]
  /\ link = [l \in Links |-> FreeLink]
  /\ reads = <<>>
  /\ now = 0
  /\ acts = 0
  /\ env = Env({}, {}, {}, {}, {}, FALSE, 0, {}, 0, 0)
  /\ \E room \in CalcRooms, b \in CalcBytes, n \in 1..MaxCut :
       calc = [code |-> room.code, typed |-> room.typed, bytes |-> b, cut |-> n,
               skey |-> Nothing, rkey |-> Nothing, sid |-> Nothing, rid |-> Nothing,
               off |-> 0, wire |-> <<>>, out |-> <<>>]

\* The key on both sides (lines 505-508 and 663-666; 193-195 and 879-881 are
\* the same text)
CalcKeys ==
  /\ calc.skey = Nothing
  /\ calc' = [calc EXCEPT !.skey = Just(KeyByte(calc.code)),
                          !.rkey = Just(KeyByte(calc.typed))]
  /\ UNCHANGED <<app, link, reads, now, acts, env>>

\* The identity the sender listens on (lines 531-532) and the one a receiver
\* connects to (lines 606-608; 165-167 and 847-849 are the same text)
CalcIds ==
  /\ calc.sid = Nothing
  /\ calc' = [calc EXCEPT !.sid = Just(SenderIdentity(calc.code)),
                          !.rid = Just(ReceiverTarget(calc.typed))]
  /\ UNCHANGED <<app, link, reads, now, acts, env>>

\* One chunk of the bytes goes through the sender's loop (lines 504-509) and
\* then through the receiver's (lines 662-667).
CalcChunk ==
  /\ calc.off < Len(calc.bytes)
  /\ LET end == Min(calc.off + calc.cut, Len(calc.bytes))
         sent == XorBytes(SubSeq(calc.bytes, calc.off + 1, end), DeriveKey(calc.code))
     IN  calc' = [calc EXCEPT !.off = end,
                             !.wire = @ \o sent,
                             !.out = @ \o XorBytes(sent, DeriveKey(calc.typed))]
  /\ UNCHANGED <<app, link, reads, now, acts, env>>

NextCalc == CalcKeys \/ CalcIds \/ CalcChunk

SpecCalc == InitCalc /\ [][NextCalc]_vars

---------------------------------------------------------------------------
(* Properties.                                                             *)

CountType(q, t) == Cardinality({i \in 1..Len(q) : q[i].type = t})

\* The connection receiver r's session runs on, if it has one.
SessionLinks(r) == {l \in Links : link[l].owner = r /\ app[r].connRef = Just(l)}

\* ceil(a / b)
CeilDiv(a, b) == (a + b - 1) \div b

\* C1: on every connection the offsets of the request-chunk messages sent so far
\* are 0, C, 2C, ... in this order, each below the size S of the metadata the
\* receiver holds, and ceil(S / C) of them have been sent when the receiver is
\* Complete (S > 0).
C1_RequestOffsets ==
  \A l \in Links :
    /\ \A i \in 1..Len(link[l].reqs) : link[l].reqs[i] = (i - 1) * CHUNK_SIZE
    /\ \A r \in env.users :
         l \in SessionLinks(r) /\ app[r].fileMeta # Nothing /\ Get(app[r].fileMeta).size > 0 =>
           /\ \A i \in 1..Len(link[l].reqs) : link[l].reqs[i] < Get(app[r].fileMeta).size
           /\ app[r].completedFile # Nothing =>
                Len(link[l].reqs) = CeilDiv(Get(app[r].fileMeta).size, CHUNK_SIZE)

\* The buffers of blob are, in order, the bytes of file f from its first to its
\* last, each byte as the file holds it.
IsContentOf(blob, f) ==
  /\ blob # <<>>
  /\ blob[1].off = 0
  /\ \A i \in 1..Len(blob) :
       /\ blob[i].file = f.name
       /\ blob[i].len > 0
       /\ blob[i].mask = 0
       /\ blob[i].off + blob[i].len = IF i < Len(blob) THEN blob[i + 1].off ELSE f.size

\* C2: when a receiver is Complete on a connection that is open on both ends
\* and whose two ends were given the same room code, the file it has assembled
\* is byte for byte the file the sender shares (S > 0).
C2_Reassembly ==
  \A r \in env.users : \A l \in SessionLinks(r) :
    /\ app[r].completedFile # Nothing
    /\ link[l].r = "open" /\ link[l].s = "open"
    /\ link[l].code = link[l].scode
    /\ Get(app[r].fileMeta).size > 0
    => /\ app[Sender].fileToShareRef # Nothing
       /\ IsContentOf(Get(app[r].completedFile).blob, Get(app[Sender].fileToShareRef))

\* request-chunk messages of connection l that have been sent and whose chunk
\* has not reached the receiver's handler yet
Outstanding(l) ==
  CountType(link[l].toS, "request-chunk")
    + Cardinality({i \in 1..Len(reads) : reads[i].conn = l})
    + CountType(link[l].toR, "chunk")

\* C3: on every receiver connection at most one request-chunk is outstanding,
\* none has been sent before the metadata was accepted, and after it the
\* requests sent are at most one more than the chunks appended.
C3_WindowOne ==
  \A l \in Links :
    /\ Outstanding(l) <= 1
    /\ link[l].r = "open" =>
         IF app[link[l].owner].fileMeta = Nothing
           THEN link[l].reqs = <<>>
           ELSE /\ Len(link[l].reqs) >= 1
                /\ Len(link[l].reqs) <= Len(app[link[l].owner].receivedChunks) + 1

\* C3 witness: a chunk request is outstanding while a duplicate metadata reply
\* waits to be handled.
C3_Witness ==
  \E l \in Links :
    /\ link[l].r = "open"
    /\ Outstanding(l) = 1
    /\ app[link[l].owner].fileMeta # Nothing
    /\ CountType(link[l].toR, "metadata") >= 1

\* C4: on a receiver, while the metadata of a transfer (S > 0) stays recorded,
\* the reported progress never decreases from one step to the next, is
\* min(99, round(100 * bytesTransferred / S)) while bytes are missing and 100
\* once they are all there.
C4_ReceiverProgress ==
  [][\A r \in env.users :
       /\ app[r].fileMeta # Nothing
       /\ Get(app[r].fileMeta).size > 0
       /\ app'[r].fileMeta = app[r].fileMeta
       /\ app'[r].peerRef = app[r].peerRef
       => /\ app'[r].transferProgress >= app[r].transferProgress
          /\ app'[r].transferProgress =
               IF app'[r].receivedBytes < Get(app[r].fileMeta).size
                 THEN Min(99, RoundPercent(app'[r].receivedBytes, Get(app[r].fileMeta).size))
                 ELSE 100]_vars

\* C5: the step in which a receiver's handler sees the first metadata message
\* of its connection stores it, empties the buffers and sends request-chunk 0
\* and nothing else; the step in which it sees a later one leaves metadata,
\* buffers, byte count and progress as they are and sends nothing.
C5_FirstMetadataOnly ==
  [][\A l \in Links :
       link'[l].metas = link[l].metas + 1 =>
         LET r == link[l].owner
             msg == Head(link[l].toR)
         IN  IF link[l].metas = 0
               THEN /\ app'[r].fileMeta =
                         Just([name |-> msg.name, size |-> msg.size, type |-> msg.mime])
                    /\ app'[r].receivedChunks = <<>>
                    /\ app'[r].receivedBytes = 0
                    /\ link'[l].reqs = <<0>>
                    /\ link'[l].toS =
                         Append(link[l].toS, [type |-> "request-chunk", offset |-> 0])
               ELSE /\ app'[r].fileMeta = app[r].fileMeta
                    /\ app'[r].receivedChunks = app[r].receivedChunks
                    /\ app'[r].receivedBytes = app[r].receivedBytes
                    /\ app'[r].transferProgress = app[r].transferProgress
                    /\ link'[l].reqs = link[l].reqs
                    /\ link'[l].toS = link[l].toS]_vars

\* C5 witness: a receiver's handler has seen a second metadata message on an
\* open connection.
C5_Witness == \E l \in Links : link[l].r = "open" /\ link[l].metas >= 2

\* C6: a request-metadata is sent on a connection only by a running retry
\* timer, while the connection is open and no metadata is recorded; the timer
\* is started only when the connection opens and stops only once metadata is
\* recorded or the connection is not open, and a stopped timer never runs again.
C6_Handshake ==
  [][\A l \in Links :
       /\ ( /\ Len(link'[l].toS) = Len(link[l].toS) + 1
            /\ link'[l].toS[Len(link'[l].toS)].type = "request-metadata" )
          => /\ link[l].hs
             /\ link'[l].hs
             /\ link[l].r = "open"
             /\ app[link[l].owner].fileMeta = Nothing
       /\ link[l].hs /\ ~link'[l].hs
          => app[link[l].owner].fileMeta # Nothing \/ link[l].r # "open"
       /\ ~link[l].hs /\ link'[l].hs
          => link[l].r = "connecting" /\ link'[l].r = "open"]_vars

\* C6 witness: metadata has arrived and the retry timer of the still open
\* connection has stopped.
C6_Witness ==
  \E l \in Links : link[l].r = "open" /\ ~link[l].hs /\ link[l].metas >= 1

\* The chunk message sendChunk builds for offset o of file f under room code c
ChunkOf(f, o, c) ==
  [type |-> "chunk", offset |-> o,
   buffer |-> [file |-> f.name, off |-> o,
               len |-> IF o < f.size THEN Min(CHUNK_SIZE, f.size - o) ELSE 0,
               mask |-> Scramble(0, DeriveKey(c))]]

\* C7: a request-chunk for offset o that reaches the sender starts one read of
\* the bytes [o, min(o + C, size)) of the file shared at that moment; every
\* chunk message on its way to a receiver carries its request's offset and
\* those bytes XOR-ed with the key of the sender's room code; the chunks sent
\* on a connection answer its requests one for one, in order.
C7_ChunkReply ==
  [][\A l \in Links :
       /\ ( /\ Len(reads') = Len(reads) + 1
            /\ reads'[Len(reads')].conn = l )
          => /\ Head(link[l].toS).type = "request-chunk"
             /\ app[Sender].fileToShareRef # Nothing
             /\ reads'[Len(reads')] =
                  [conn |-> l,
                   offset |-> Head(link[l].toS).offset,
                   file |-> Get(app[Sender].fileToShareRef),
                   end |-> Min(Head(link[l].toS).offset + CHUNK_SIZE,
                               Get(app[Sender].fileToShareRef).size),
                   code |-> link[l].scode]
       /\ \A i \in 1..Len(link'[l].toR) :
            link'[l].toR[i].type = "chunk" =>
              \E f \in env.files :
                link'[l].toR[i] = ChunkOf(f, link'[l].toR[i].offset, link'[l].scode)
       /\ Len(link'[l].sent) <= Len(link'[l].reqs)
       /\ link'[l].sent = SubSeq(link'[l].reqs, 1, Len(link'[l].sent))]_vars

\* C7 witness: the short last chunk of a file is on its way to the receiver.
C7_Witness ==
  \E l \in Links : \E i \in 1..Len(link[l].toR) :
    /\ link[l].toR[i].type = "chunk"
    /\ link[l].toR[i].offset > 0
    /\ link[l].toR[i].buffer.len > 0
    /\ link[l].toR[i].buffer.len < CHUNK_SIZE

\* C8: a connection that is open on both ends, on which a receiver has asked
\* for its first chunk and to which the sender has sent no chunk yet, is not
\* closed by the sender in a step that is no user event.
C8_Isolation ==
  [][acts' = acts =>
       \A l \in Links :
         /\ link[l].s = "open" /\ link[l].r = "open"
         /\ link[l].reqs # <<>> /\ link[l].sent = <<>>
         /\ app[link[l].owner].completedFile = Nothing
         => link'[l].s = "open"]_vars

\* The sender's end of l is open before the step and not after it.
ClosesOpen(l) == link[l].s = "open" /\ link'[l].s # "open"

\* The step tears the sender's session down (resetConnection).
SenderReset == app[Sender].peerRef # Nothing /\ app'[Sender].peerRef # app[Sender].peerRef

\* C9 as stated: every step that empties the sender's connection set clears the
\* connected indicator and raises the connection-lost notice.
C9_NoticeOnEmpty ==
  [][app[Sender].multiConns # <<>> /\ app'[Sender].multiConns = <<>> =>
       ~app'[Sender].isConnected /\ app'[Sender].errorStatus = "Connection lost."]_vars

\* C9 amended: a connection of the sender that closes is removed from the set;
\* a close event outside a reset clears the indicator and raises the notice
\* when it empties the set and changes neither otherwise; a reset empties the
\* set and clears the indicator and leaves no notice; the notice appears and,
\* outside a reset, the indicator clears at no other step.
C9_RoomSet ==
  [][/\ \A l \in Links : ClosesOpen(l) => ~InSeq(app'[Sender].multiConns, l)
     /\ \A l \in Links : ClosesOpen(l) /\ ~SenderReset =>
          IF app'[Sender].multiConns = <<>>
            THEN ~app'[Sender].isConnected /\ app'[Sender].errorStatus = "Connection lost."
            ELSE /\ app'[Sender].isConnected = app[Sender].isConnected
                 /\ app'[Sender].errorStatus = app[Sender].errorStatus
     /\ SenderReset =>
          /\ app'[Sender].multiConns = <<>>
          /\ ~app'[Sender].isConnected
          /\ app'[Sender].errorStatus = None
     /\ app'[Sender].errorStatus = "Connection lost." /\ app[Sender].errorStatus # "Connection lost."
          => \E l \in Links : ClosesOpen(l) /\ ~SenderReset /\ app'[Sender].multiConns = <<>>
     /\ app[Sender].isConnected /\ ~app'[Sender].isConnected
          => SenderReset \/ \E l \in Links : ClosesOpen(l) /\ app'[Sender].multiConns = <<>>]_vars

\* C9 witness: the close of the last connection has emptied the set of a
\* sender that is still listening, and the notice is up.
C9_Witness ==
  /\ app[Sender].peerRef # Nothing
  /\ app[Sender].multiConns = <<>>
  /\ ~app[Sender].isConnected
  /\ app[Sender].errorStatus = "Connection lost."

\* C10: a participant whose progress is 100 while it is connected has its
\* countdown running; a countdown starts at 300 and shows 300 minus the seconds
\* passed since; a tick above 1 takes one off and leaves the mode alone; the
\* tick at 1, the 300th, tears the session down and returns it to idle with
\* metadata, buffers, byte count and completed file cleared; no other tick
\* changes the mode.
C10_Countdown ==
  [][\A p \in Participants :
       /\ app'[p].transferProgress >= 100 /\ app'[p].isConnected => app'[p].sdTimer
       /\ app'[p].sdTimer /\ ~app[p].sdTimer =>
            app'[p].selfDestructSec = SELF_DESTRUCT_SEC /\ app'[p].armedAt = now'
       /\ app'[p].sdTimer =>
            app'[p].selfDestructSec = SELF_DESTRUCT_SEC - (now' - app'[p].armedAt)
       /\ now' = now + 1 /\ app[p].sdTimer =>
            IF app[p].selfDestructSec > 1
              THEN /\ app'[p].sdTimer
                   /\ app'[p].selfDestructSec = app[p].selfDestructSec - 1
                   /\ app'[p].mode = app[p].mode
              ELSE /\ now' = app[p].armedAt + SELF_DESTRUCT_SEC
                   /\ app'[p].mode = "idle"
                   /\ ~app'[p].sdTimer
                   /\ app'[p].selfDestructSec = 0
                   /\ app'[p].peerRef = Nothing /\ app'[p].connRef = Nothing
                   /\ app'[p].multiConns = <<>> /\ ~app'[p].isConnected
                   /\ app'[p].fileMeta = Nothing
                   /\ app'[p].receivedChunks = <<>> /\ app'[p].receivedBytes = 0
                   /\ app'[p].completedFile = Nothing
                   /\ app'[p].transferProgress = 0 - 1
                   /\ app'[p].errorStatus = None
       /\ now' = now + 1 /\ app'[p].mode # app[p].mode =>
            app[p].sdTimer /\ app[p].selfDestructSec <= 1]_vars

\* C10 witness: the sender's countdown has run out: it is back in idle, its
\* session cleared, the room code of the session still in its state.
C10_Witness ==
  /\ now >= SELF_DESTRUCT_SEC
  /\ app[Sender].mode = "idle"
  /\ app[Sender].shareCode # <<>>
  /\ app[Sender].peerRef = Nothing

\* The step tears participant p's session down or takes p out of its mode.
SessionEnds(p) ==
  \/ app[p].peerRef # Nothing /\ app'[p].peerRef # app[p].peerRef
  \/ app'[p].mode # app[p].mode

\* C11: a countdown runs only while the session that started it is complete
\* and connected; a handler that resets the session or changes the mode leaves
\* no countdown running; the passing of a second changes nothing but the
\* connection counter of a participant whose countdown is not running, and it
\* tears a session down or changes the mode only for a participant whose
\* countdown is running and was started 300 seconds before, so never for a
\* session started after a reset.
C11_CancelOnReset ==
  [][\A p \in Participants :
       /\ app'[p].sdTimer =>
            /\ app'[p].transferProgress >= 100 /\ app'[p].isConnected
            /\ app'[p].armedAt <= now'
       /\ now' = now /\ SessionEnds(p) => ~app'[p].sdTimer
       /\ now' = now + 1 /\ ~app[p].sdTimer =>
            [app'[p] EXCEPT !.connTime = app[p].connTime] = app[p]
       /\ now' = now + 1 /\ SessionEnds(p) =>
            app[p].sdTimer /\ now' = app[p].armedAt + SELF_DESTRUCT_SEC]_vars

\* C11 witness: a receiver whose countdown was stopped by a reset is in receive
\* mode at the second in which that countdown would have run out.
C11_Witness ==
  \E r \in env.users :
    /\ app[r].cancelled # Nothing
    /\ now >= Get(app[r].cancelled) + SELF_DESTRUCT_SEC
    /\ app[r].mode = "receive"
    /\ ~app[r].sdTimer

\* The receiver's end of l is open before the step and closed after it.
ChannelCloses(l) == link[l].r = "open" /\ link'[l].r = "closed"

\* C12: when a receiver's channel closes while 0 < bytesTransferred < size, in
\* a step that keeps the session's metadata, the error state becomes the
\* unexpected-closure notice; when it closes before any byte was transferred
\* the step reports no error.
C12_UnexpectedClose ==
  [][\A l \in Links :
       ChannelCloses(l) =>
         LET a == app[link[l].owner] IN
           /\ ( /\ a.fileMeta # Nothing
                /\ app'[link[l].owner].fileMeta = a.fileMeta
                /\ 0 < a.receivedBytes
                /\ a.receivedBytes < Get(a.fileMeta).size )
              => app'[link[l].owner].errorStatus = "Connection closed unexpectedly."
           /\ a.receivedBytes = 0 =>
                app'[link[l].owner].errorStatus \in {a.errorStatus, None}]_vars

\* The step is the run of the receiver's data handler of l on a chunk message
\* whose payload has zero length.
TakesEmptyChunk(l) ==
  /\ link[l].r = "open" /\ link'[l].r = "open"
  /\ link[l].toR # <<>>
  /\ Head(link[l].toR).type = "chunk"
  /\ Head(link[l].toR).buffer.len = 0
  /\ link'[l].toR = Tail(link[l].toR)

\* C13: on every entry path the handler that takes a chunk of zero length sets
\* the error state, appends nothing, leaves bytesTransferred as it is and
\* sends no request-chunk.
C13_ZeroLengthChunk ==
  [][\A l \in Links :
       TakesEmptyChunk(l) =>
         LET r == link[l].owner IN
           /\ app'[r].errorStatus # None
           /\ app'[r].receivedChunks = app[r].receivedChunks
           /\ app'[r].receivedBytes = app[r].receivedBytes
           /\ link'[l].reqs = link[l].reqs]_vars

\* The bytes held by a sequence of buffers
RECURSIVE BlobSize(_)
BlobSize(blob) == IF blob = <<>> THEN 0 ELSE Head(blob).len + BlobSize(Tail(blob))

\* C14: a receiver that holds the metadata of a file of size 0 sends at most
\* one request-chunk, and the step in which its handler takes the zero-length
\* chunk answering it makes it Complete: progress 100, a completed file of no
\* bytes, and the error state left as it was.
C14_EmptyFile ==
  [][\A l \in Links :
       LET r == link[l].owner IN
         /\ r # None /\ link[l].r = "open" /\ app[r].connRef = Just(l)
         /\ app[r].fileMeta # Nothing
         /\ Get(app[r].fileMeta).size = 0
         => /\ Len(link'[l].reqs) <= 1
            /\ TakesEmptyChunk(l) =>
                 /\ app'[r].transferProgress = 100
                 /\ app'[r].completedFile # Nothing
                 /\ BlobSize(Get(app'[r].completedFile).blob) = 0
                 /\ app'[r].errorStatus = app[r].errorStatus]_vars

\* C15: while the sender's error state is set and its session is the same, it
\* accepts no inbound connection, starts no chunk read and sends no message;
\* while a receiver's error state is set and its session is the same, it
\* appends no chunk and sends no message.
C15_Terminal ==
  [][/\ ( /\ app[Sender].errorStatus # None
          /\ app[Sender].peerRef # Nothing
          /\ app'[Sender].peerRef = app[Sender].peerRef )
        => /\ Len(app'[Sender].multiConns) <= Len(app[Sender].multiConns)
           /\ Len(reads') <= Len(reads)
           /\ \A l \in Links : Len(link'[l].toR) <= Len(link[l].toR)
     /\ \A r \in env.users :
          ( /\ app[r].errorStatus # None
            /\ app[r].peerRef # Nothing
            /\ app'[r].peerRef = app[r].peerRef )
          => /\ Len(app'[r].receivedChunks) <= Len(app[r].receivedChunks)
             /\ \A l \in Links :
                  link[l].owner = r => Len(link'[l].toS) <= Len(link[l].toS)]_vars

\* C16: the step in which a participant's Peer reports a failure sets the
\* participant's error state and builds no new Peer, on the sender as on a
\* receiver.
C16_EndpointFailure ==
  [][\A p \in Participants :
       app'[p].peerErr /\ ~app[p].peerErr =>
         /\ app'[p].errorStatus # None
         /\ app'[p].peerRef = app[p].peerRef]_vars

\* C17: in send mode a room code is displayed, and whenever the sender has a
\* Peer, the identity of the Peer and the key of the chunks it serves are
\* derived from the room code displayed.
C17_FreshCode ==
  /\ app[Sender].mode = "send" => app[Sender].shareCode \in env.genCodes
  /\ app[Sender].peerRef # Nothing =>
       /\ Get(app[Sender].peerRef).id = SenderIdentity(app[Sender].shareCode)
       /\ DeriveKey(Get(app[Sender].peerRef).code) = DeriveKey(app[Sender].shareCode)

\* The session state resetConnection leaves (lines 441-464)
Cleared(a) ==
  /\ a.peerRef = Nothing /\ a.connRef = Nothing /\ a.multiConns = <<>>
  /\ a.peerCount = 0 /\ ~a.isConnected
  /\ a.fileMeta = Nothing /\ a.receivedChunks = <<>> /\ a.receivedBytes = 0
  /\ a.completedFile = Nothing
  /\ a.transferProgress = 0 - 1
  /\ a.errorStatus = None
  /\ a.selfDestructSec = 0 /\ ~a.sdTimer

\* C18: a participant whose session state is cleared and who has no Peer keeps
\* the cleared state in every step that builds no new Peer.
C18_StaysCleared ==
  [][\A p \in Participants :
       Cleared(app[p]) /\ app'[p].peerRef = Nothing => Cleared(app'[p])]_vars

\* The metadata message the sender builds for file f (lines 554-559)
MetaOf(f) == [name |-> f.name, size |-> f.size, type |-> f.type]

\* C19: on every connection the metadata replies on their way to the receiver
\* agree with each other and with the metadata the receiver has recorded, and
\* every chunk read started for the connection and every chunk on its way is
\* of the file of that metadata.
C19_FixedFile ==
  \A l \in Links :
    /\ \A i, j \in 1..Len(link[l].toR) :
         link[l].toR[i].type = "metadata" /\ link[l].toR[j].type = "metadata"
           => link[l].toR[i] = link[l].toR[j]
    /\ \A r \in env.users :
         l \in SessionLinks(r) /\ link[l].r = "open" /\ app[r].fileMeta # Nothing =>
           LET meta == Get(app[r].fileMeta) IN
             /\ \A i \in 1..Len(link[l].toR) :
                  /\ link[l].toR[i].type = "metadata" =>
                       /\ link[l].toR[i].name = meta.name
                       /\ link[l].toR[i].size = meta.size
                       /\ link[l].toR[i].mime = meta.type
                  /\ link[l].toR[i].type = "chunk" => link[l].toR[i].buffer.file = meta.name
             /\ \A i \in 1..Len(reads) : reads[i].conn = l => MetaOf(reads[i].file) = meta

\* Connection l is open on both ends and is the connection of its receiver's
\* session.
Connected(l) ==
  /\ link[l].s = "open" /\ link[l].r = "open"
  /\ link[l].owner # None
  /\ app[link[l].owner].connRef = Just(l)

\* The receiver of l has assembled a file.
Finalized(l) ==
  /\ link[l].owner # None
  /\ app[link[l].owner].completedFile # Nothing

\* The receiver of l is Complete and its countdown runs.
Completed(l) ==
  /\ Finalized(l)
  /\ LET a == app[link[l].owner] IN
    /\ a.fileMeta # Nothing
    /\ a.receivedBytes = Get(a.fileMeta).size
    /\ a.transferProgress = 100
    /\ a.sdTimer

\* C20: under fair delivery, a receiver connected to a sender that has file f
\* (of size S > 0) selected, and that has assembled no file yet, eventually
\* assembles one, unless the connection stops being open or the sender's file
\* stops being f; and the step in which a connected receiver assembles its
\* file leaves it Complete (the metadata received, bytesTransferred = size,
\* progress 100) with its countdown running.
C20_Completes ==
  /\ \A l \in LiveLinks : \A f \in LiveFiles :
       ( /\ Connected(l)
         /\ ~Finalized(l)
         /\ app[Sender].fileToShareRef = Just(f)
         /\ f.size > 0 )
       ~> (Finalized(l) \/ ~Connected(l) \/ app[Sender].fileToShareRef # Just(f))
  /\ [][\A l \in LiveLinks :
           Connected(l) /\ ~Finalized(l) /\ Connected(l)' /\ Finalized(l)'
             => Completed(l)']_vars

\* The number the text after '#' of a drawn code stands for, read by hand;
\* -1 where the code has no '#' or the text is no number.
PinNumber(code) ==
  CASE code = CodeA -> 1000 [] code = CodeB -> 4242 [] code = CodeAPin -> 1001
    [] code = CodeAWrap -> 1256 [] code = CodeAZero -> 0 [] code = CodeALead -> 12
    [] code = CodeANoPin -> -1 [] code = CodeAText -> -1

\* C21: the sender's key and the receiver's key for the same room code are the
\* same integer in [0,255]: PIN mod 256 when the text after '#' is a non-zero
\* number, 0 when the PIN is missing or no number.
C21_SameKey ==
  calc.skey # Nothing /\ calc.typed = calc.code =>
    /\ calc.rkey = calc.skey
    /\ Get(calc.skey) \in 0..255
    /\ Get(calc.skey) = IF PinNumber(calc.code) > 0 THEN PinNumber(calc.code) % 256 ELSE 0

\* C21 witness: both keys computed for a code without PIN, and for a code
\* whose PIN exceeds 256 several times.
C21_Witness ==
  /\ calc.skey # Nothing /\ calc.rkey # Nothing
  /\ calc.typed = calc.code
  /\ calc.code \in {CodeANoPin, CodeAWrap}

\* A code of the form xxx-yyy#pppp.
RoomForm(code) ==
  /\ Len(code) = 12
  /\ code[4] = "-" /\ code[8] = "#"
  /\ \A i \in (1..12) \ {4, 8} : code[i] \notin {"-", "#", " "}

\* C22: for a room code of the form xxx-yyy#pppp typed in any letter case, the
\* identity the receiver connects to is the identity the sender listens on:
\* the prefix followed by the six connect characters in lower case.
C22_SameIdentity ==
  calc.sid # Nothing /\ RoomForm(calc.code) =>
    /\ calc.rid = calc.sid
    /\ Get(calc.sid) = <<"mephisto-", calc.code[1], calc.code[2], calc.code[3],
                         calc.code[5], calc.code[6], calc.code[7]>>

\* C22 witness: both identities computed for a code typed in upper case.
C22_Witness ==
  /\ calc.sid # Nothing /\ calc.rid # Nothing
  /\ RoomForm(calc.code)
  /\ calc.typed = CodeAUp

\* C25: XOR-ing every byte with the key twice gives the bytes again, however
\* the bytes are cut into chunks: what has gone through the sender's loop and
\* then through the receiver's loop with the same key is the bytes sent so
\* far, and every byte on the way is a byte.
C25_Involution ==
  KeyByte(calc.typed) = KeyByte(calc.code) =>
    /\ calc.out = SubSeq(calc.bytes, 1, calc.off)
    /\ Len(calc.wire) = calc.off
    /\ \A i \in 1..Len(calc.wire) : calc.wire[i] \in 0..255

\* C25 witness: bytes of more than one chunk have gone through both loops
\* with a key that changes them.
C25_Witness ==
  /\ KeyByte(calc.typed) = KeyByte(calc.code)
  /\ KeyByte(calc.code) # 0
  /\ calc.cut < Len(calc.bytes)
  /\ calc.off = Len(calc.bytes)
  /\ calc.wire # calc.bytes
  /\ calc.out = calc.bytes

\* C23: the connection-duration counter is 0 when a participant becomes
\* connected, is one more after every second that passes while the participant
\* stays connected and changes in no other step while it does, and is 0 in
\* every state in which the participant is not connected.
C23_ConnTime ==
  [][\A p \in Participants :
       /\ ~app[p].isConnected /\ app'[p].isConnected => app'[p].connTime = 0
       /\ app[p].isConnected /\ app'[p].isConnected =>
            app'[p].connTime = app[p].connTime + (now' - now)
       /\ ~app'[p].isConnected => app'[p].connTime = 0]_vars

\* A step in which the sender's user sends a chat message.
Broadcasts == Len(app'[Sender].chatMessages) = Len(app[Sender].chatMessages) + 1

\* The message of that step as it goes on the wire.
Broadcast == [type |-> "chat",
              text |-> app'[Sender].chatMessages[Len(app'[Sender].chatMessages)].text]

\* C24: a broadcast on the sender appends the message once to what is on its
\* way to the receiver of every connection whose sender end is open and
\* changes no other connection; it changes nothing of the sender but its list
\* of chat messages (not the connection set, the error status, the progress or
\* the file), nothing of any receiver and no pending read.
C24_Broadcast ==
  [][Broadcasts =>
       /\ \A l \in Links :
            link'[l] = IF link[l].s = "open"
                         THEN [link[l] EXCEPT !.toR = Append(@, Broadcast)]
                         ELSE link[l]
       /\ app'[Sender] = [app[Sender] EXCEPT !.chatMessages = app'[Sender].chatMessages]
       /\ \A r \in Participants \ {Sender} : app'[r] = app[r]
       /\ reads' = reads]_vars

\* A message was broadcast in a room of two connections, one open and with a
\* transfer under way, which carries the message, the other accepted and never
\* opened, which carries nothing.
C24_Witness ==
  /\ app[Sender].chatMessages # <<>>
  /\ \E l1, l2 \in Links :
       /\ InSeq(app[Sender].multiConns, l1) /\ InSeq(app[Sender].multiConns, l2)
       /\ link[l1].s = "open" /\ link[l2].s = "pending"
       /\ \E i \in 1..Len(link[l1].toR) : link[l1].toR[i].type = "chat"
       /\ link[l1].metas > 0
       /\ link[l2].toR = <<>>

\* C26: in a step of the sender's session (one that does not reset the
\* progress to -1) the progress the sender reports does not decrease, and it
\* becomes 100 only in a step that puts on the wire a chunk ending at the end
\* of the file, whatever the number of receivers.
C26_SenderProgress ==
  [][/\ \/ app'[Sender].transferProgress >= app[Sender].transferProgress
        \/ app'[Sender].transferProgress = 0 - 1
     /\ app'[Sender].transferProgress = 100 /\ app[Sender].transferProgress # 100 =>
          \E i \in 1..Len(reads) :
            /\ reads[i].end = reads[i].file.size
            /\ Len(link'[reads[i].conn].sent) = Len(link[reads[i].conn].sent) + 1]_vars

\* C27: after every step the file the sender's handlers serve from
\* (fileToShareRef) is the file selected in the sender's state (fileToShare),
\* and a step taken while no file is selected puts no metadata reply on any
\* connection and starts no chunk read.
C27_RemovedFileNotServed ==
  [][/\ app'[Sender].fileToShareRef = app'[Sender].fileToShare
     /\ app[Sender].fileToShare = Nothing /\ app'[Sender].fileToShare = Nothing =>
          /\ \A l \in Links :
               CountType(link'[l].toR, "metadata") <= CountType(link[l].toR, "metadata")
          /\ Len(reads') <= Len(reads)]_vars

\* C28: whenever a receiver holds a completed file, the key byte its handlers
\* de-obfuscate with (from the code it typed) is the key byte the sender's
\* handlers of the same connection obfuscate with (from the room code).
C28_KeyAgreed ==
  \A r \in env.users : \A l \in SessionLinks(r) :
    app[r].completedFile # Nothing => KeyByte(link[l].code) = KeyByte(link[l].scode)

\* C29: the sender's isConnected is TRUE exactly when some connection of
\* multiConns is open on the sender's end.
C29_ConnectedIffOpen ==
  app[Sender].isConnected <=>
    \E l \in Links : InSeq(app[Sender].multiConns, l) /\ link[l].s = "open"

\* C30: a receiver that holds a completed file and whose countdown has
\* started, in a run that lasts until the end of that countdown, eventually
\* holds no completed file, whatever happens to its connection meanwhile.
C30_EventuallyCleared ==
  \A r \in LiveUsers :
    (/\ app[r].completedFile # Nothing
     /\ app[r].sdTimer
     /\ app[r].armedAt + SELF_DESTRUCT_SEC <= env.seconds)
      ~> (app[r].completedFile = Nothing)

=============================================================================
